---------------------------- MODULE Spec2Model ----------------------------
(***************************************************************************)
(* A model of homework/cmd/main.go: a dd-like copy utility.  The program   *)
(* reads a source through a window (io.CopyN to skip Offset bytes, then    *)
(* io.LimitReader), through a chain of stream filters (CaseReader,         *)
(* TrimReader) and writes what the chain delivers to a sink.               *)
(*                                                                         *)
(* Bytes are the integers 0..255, byte slices are sequences, runes are     *)
(* code points.  A Read call is modelled whole: the recursion of           *)
(* CaseReader.Read / TrimReader.Read down to the source is the recursive   *)
(* operator Read, which yields the set of every outcome the call can have  *)
(* (the source may return any number of bytes between 1 and the length     *)
(* asked for: a pipe delivers what it holds).                              *)
(***************************************************************************)
EXTENDS Integers, Sequences, FiniteSets, TLC

VARIABLES
    input,      \* the bytes of the underlying source (the file or stdin)
    pos,        \* how many bytes of the source have been consumed
    limitN,     \* io.LimitedReader.N: how many bytes the window may still yield
    chain,      \* the filters CreateReader stacked on the window, first = innermost
    out,        \* every byte delivered to the caller of the outermost reader
    err,        \* the error of the caller's last Read: "nil", "EOF"
    split,      \* history: a source read ended strictly inside a multi-byte character
    pc,         \* main's position
    convs,      \* the value of the -conv flag
    opts,       \* the Options ParseFlags built from the command line
    sink,       \* the state of the path opts.To in the file system
    sinkFile,   \* the content of the file at opts.To
    writer,     \* the io.Writer createWriter returned
    opened,     \* the source has been opened
    exitCode,   \* the process's exit code, -1 while it runs
    stderr,     \* the phase message main printed on the error stream
    source,     \* what kind of io.Reader the underlying source is
    reads       \* history: the reads of the window the caller's last Read made

vars == <<input, pos, limitN, chain, out, err, split,
          pc, convs, opts, sink, sinkFile, writer, opened, exitCode, stderr,
          source, reads>>

-----------------------------------------------------------------------------
(* Bounds of the model. *)

\* The most units (characters, stray bytes) an input of a filter is built of.
MaxUnits == 3

\* The most units an input of the TrimReader is built of.
MaxTrimUnits == 4

\* The largest caller buffer (len(p)) handed to a Read.
MaxBlock == 3

\* The longest source of a run that windows it.
MaxSrc == 6

\* The most tokens of a -conv flag.
MaxConv == 5

\* The most units an input is built of where the end of every drain is checked.
MaxLiveUnits == 2

-----------------------------------------------------------------------------
(* Go's builtins and the standard library, as the program uses them. *)

\* The builtin min (line 77).
Min(a, b) == IF a < b THEN a ELSE b

\* s[i:] and s[:i] of a byte slice, i counted from 0 as in Go.
SliceFrom(s, i) == SubSeq(s, i + 1, Len(s))

SliceTo(s, i) == SubSeq(s, 1, i)

\* s[i:j]
Slice(s, i, j) == SubSeq(s, i + 1, j)

\* utf8.RuneError, U+FFFD: what utf8.DecodeRune answers for bytes it cannot decode.
RuneError == 65533

\* utf8.DecodeRune(b): the first rune of b and its width in bytes.  (RuneError, 0)
\* for an empty slice, (RuneError, 1) for an invalid or incomplete encoding; the
\* accept ranges of the second byte are those of the unicode/utf8 package.
DecodeRune(b) ==
    IF Len(b) < 1 THEN [r |-> RuneError, size |-> 0]
    ELSE LET p0 == b[1]
             bad == [r |-> RuneError, size |-> 1]
         IN  IF p0 < 128 THEN [r |-> p0, size |-> 1]
             ELSE IF p0 < 194 \/ p0 > 244 THEN bad
             ELSE LET sz == IF p0 < 224 THEN 2 ELSE IF p0 < 240 THEN 3 ELSE 4
                      lo == IF p0 = 224 THEN 160 ELSE IF p0 = 240 THEN 144 ELSE 128
                      hi == IF p0 = 237 THEN 159 ELSE IF p0 = 244 THEN 143 ELSE 191
                  IN  IF Len(b) < sz THEN bad
                      ELSE IF b[2] < lo \/ hi < b[2] THEN bad
                      ELSE IF sz = 2
                           THEN [r |-> (p0 % 32) * 64 + (b[2] % 64), size |-> 2]
                      ELSE IF b[3] < 128 \/ 191 < b[3] THEN bad
                      ELSE IF sz = 3
                           THEN [r |-> (p0 % 16) * 4096 + (b[2] % 64) * 64
                                       + (b[3] % 64), size |-> 3]
                      ELSE IF b[4] < 128 \/ 191 < b[4] THEN bad
                      ELSE [r |-> (p0 % 8) * 262144 + (b[2] % 64) * 4096
                                  + (b[3] % 64) * 64 + (b[4] % 64), size |-> 4]

\* []byte(string(r)): the UTF-8 encoding of a rune (a surrogate or a value out of
\* range converts to U+FFFD).
EncodeRune(r) ==
    IF r < 0 \/ r > 1114111 \/ (55296 <= r /\ r <= 57343) THEN <<239, 191, 189>>
    ELSE IF r < 128 THEN <<r>>
    ELSE IF r < 2048 THEN <<192 + (r \div 64), 128 + (r % 64)>>
    ELSE IF r < 65536
         THEN <<224 + (r \div 4096), 128 + ((r \div 64) % 64), 128 + (r % 64)>>
    ELSE <<240 + (r \div 262144), 128 + ((r \div 4096) % 64),
           128 + ((r \div 64) % 64), 128 + (r % 64)>>

\* strings.ToUpper(string(r)) as a rune.  Exact on U+0000..U+00FF (ASCII, Latin-1:
\* micro sign to U+039C, y with diaeresis to U+0178); the identity above, which is
\* exact for every other rune the inputs of this model encode.
ToUpper(r) ==
    IF 97 <= r /\ r <= 122 THEN r - 32
    ELSE IF r = 181 THEN 924
    ELSE IF 224 <= r /\ r <= 254 /\ r # 247 THEN r - 32
    ELSE IF r = 255 THEN 376
    ELSE r

\* strings.ToLower(string(r)) as a rune, exact on the same runes.
ToLower(r) ==
    IF 65 <= r /\ r <= 90 THEN r + 32
    ELSE IF 192 <= r /\ r <= 222 /\ r # 215 THEN r + 32
    ELSE r

\* A test for white space that knows the ASCII space alone.
IsSpace_SpaceOnly(r) == r = 32

\* unicode.IsSpace(r): the Latin-1 spaces and the White_Space property above them.
IsSpace(r) ==
    \/ r \in {9, 10, 11, 12, 13, 32, 133, 160}
    \/ r \in {5760, 8232, 8233, 8239, 8287, 12288}
    \/ (8192 <= r /\ r <= 8202)

-----------------------------------------------------------------------------
(* copyFromChecked and the two filters. *)

\* A copy that copies nothing.
copyFromChecked_Nothing(dstLen, src) == [data |-> <<>>, src |-> src, length |-> 0]

\* A copy that loses the first of the bytes that did not fit into dst.
copyFromChecked_SkipsOne(dstLen, src) ==
    [data |-> SliceTo(src, Min(dstLen, Len(src))),
     src |-> SliceFrom(src, Min(dstLen, Len(src)) + 1),
     length |-> Min(dstLen, Len(src))]

\* copyFromChecked(dst, src): copies min(len(dst), len(src)) bytes; data is what
\* dst received, src what is left of src, length the count.
copyFromChecked(dstLen, src) ==
    LET length == Min(dstLen, Len(src))
    IN  [data |-> SliceTo(src, length), src |-> SliceFrom(src, length),
         length |-> length]

\* &CaseReader{reader: reader, toUpper: toUpper}
NewCaseReader(toUpper) ==
    [type |-> "CaseReader", toUpper |-> toUpper, mapped |-> <<>>, buffer |-> <<>>]

\* &TrimReader{reader: reader}
NewTrimReader ==
    [type |-> "TrimReader", buffer |-> <<>>, trimmed |-> <<>>,
     skippedSpaces |-> FALSE]

\* The scan of CaseReader.Read (lines 103-116) from index i: every rune decoded is
\* mapped and appended; the loop breaks at the first RuneError.  Yields the index
\* the loop ended at and the mapped bytes.
RECURSIVE CaseLoop(_, _, _, _)
CaseLoop(buffer, i, mapped, toUpper) ==
    IF i >= Len(buffer) THEN [i |-> i, mapped |-> mapped]
    ELSE LET d == DecodeRune(SliceFrom(buffer, i))
         IN  IF d.r = RuneError THEN [i |-> i, mapped |-> mapped]
             ELSE CaseLoop(buffer, i + d.size,
                           mapped \o EncodeRune(IF toUpper THEN ToUpper(d.r)
                                                ELSE ToLower(d.r)),
                           toUpper)

\* A CaseReader that steps over the byte its scan stopped at.
CaseCarry_SkipsStop(buffer, i) == SliceFrom(buffer, i + 1)

\* A CaseReader that forgets the bytes its scan stopped at.
CaseCarry_Dropped(buffer, i) == <<>>

\* What CaseReader keeps as its carry after a scan that ended at index i
\* (line 118: cr.buffer = cr.buffer[i:]).
CaseCarry(buffer, i) == SliceFrom(buffer, i)

\* Lines 101-118 of CaseReader.Read: append the chunk read, scan, keep the rest.
CaseFill(cr, data) ==
    LET buffer == cr.buffer \o data
        l == CaseLoop(buffer, 0, cr.mapped, cr.toUpper)
    IN  [cr EXCEPT !.mapped = l.mapped, !.buffer = CaseCarry(buffer, l.i)]

\* A TrimReader that appends the rune alone, without the white space before it.
TrimAppend_RuneOnly(buffer, skippedSpaces, firstSpacePos, i, runeSize) ==
    Slice(buffer, i, i + runeSize)

\* What TrimReader appends for a non-space rune at [i, i+runeSize) (lines 154-159):
\* once a non-space rune has been seen, everything from firstSpacePos on, the
\* white space before the rune included; before that, the rune alone.
TrimAppend(buffer, skippedSpaces, firstSpacePos, i, runeSize) ==
    IF skippedSpaces THEN Slice(buffer, firstSpacePos, i + runeSize)
    ELSE Slice(buffer, i, i + runeSize)

\* The scan of TrimReader.Read (lines 142-161) from index i.
RECURSIVE TrimLoop(_, _, _, _, _)
TrimLoop(buffer, i, firstSpacePos, trimmed, skippedSpaces) ==
    LET stop == [firstSpacePos |-> firstSpacePos, trimmed |-> trimmed,
                 skippedSpaces |-> skippedSpaces]
    IN  IF i >= Len(buffer) THEN stop
        ELSE LET d == DecodeRune(SliceFrom(buffer, i))
             IN  IF d.r = RuneError THEN stop
                 ELSE IF IsSpace(d.r)
                      THEN TrimLoop(buffer, i + d.size, firstSpacePos, trimmed,
                                    skippedSpaces)
                 ELSE TrimLoop(buffer, i + d.size, i + d.size,
                               trimmed \o TrimAppend(buffer, skippedSpaces,
                                                     firstSpacePos, i, d.size),
                               TRUE)

\* Lines 140-163 of TrimReader.Read.
TrimFill(tr, data) ==
    LET buffer == tr.buffer \o data
        l == TrimLoop(buffer, 0, 0, tr.trimmed, tr.skippedSpaces)
    IN  [tr EXCEPT !.trimmed = l.trimmed, !.skippedSpaces = l.skippedSpaces,
                   !.buffer = SliceFrom(buffer, l.firstSpacePos)]

\* &MapReader{file: file, toUpper: toUpper}: the case filter of the file's second
\* program (lines 245-510), which CreateReader builds there for lower_case and
\* upper_case (lines 460-463).
NewMapReader(toUpper) ==
    [type |-> "MapReader", toUpper |-> toUpper, safe |-> <<>>, buffer |-> <<>>]

\* bytes.TrimRight(b, "\x00"): b without the zero bytes at its end.
RECURSIVE TrimRight(_)
TrimRight(b) ==
    IF Len(b) # 0 /\ b[Len(b)] = 0 THEN TrimRight(SliceTo(b, Len(b) - 1)) ELSE b

\* Lines 329-340 of MapReader.Read: the delivery of pending bytes into a buffer
\* of dstLen bytes.
MapDeliver(dstLen, safe) ==
    IF dstLen < Len(safe)
    THEN [data |-> SliceTo(safe, dstLen), safe |-> SliceFrom(safe, dstLen),
          n |-> dstLen]
    ELSE [data |-> safe, safe |-> <<>>, n |-> Len(safe)]

\* Lines 348-367 of MapReader.Read: the whole buffer of len(p) bytes, the chunk
\* read followed by the zero bytes make gave it, is appended without the zero
\* bytes at its end; the scan and the carry are those of CaseReader (right = i).
MapFill(mr, data) ==
    LET buffer == mr.buffer \o TrimRight(data)
        l == CaseLoop(buffer, 0, mr.safe, mr.toUpper)
    IN  [mr EXCEPT !.safe = l.mapped, !.buffer = SliceFrom(buffer, l.i)]

-----------------------------------------------------------------------------
(* Reading.  A reader state s is [pos, N, chain, split, reads]; every read      *)
(* yields the                                                                  *)
(* set of its possible outcomes [data, n, err, s]: data is what was written    *)
(* into the caller's buffer, n and err what the call returned.                 *)

\* The offsets of the source at which a character starts when it is decoded from
\* its first byte on, a byte that decodes to nothing counting as one character.
RECURSIVE CharStarts(_)
CharStarts(i) ==
    IF i >= Len(input) THEN {}
    ELSE {i} \cup CharStarts(i + DecodeRune(SliceFrom(input, i)).size)

\* History: offset q lies strictly inside a multi-byte character of the source.
InsideChar(q) == 0 < q /\ q < Len(input) /\ q \notin CharStarts(0)

\* The source as the program has it: an *os.File (os.Stdin or what os.Open
\* returned) whose every read succeeds until the end of the file.
File == [fault |-> -1, dataErr |-> FALSE]

\* How far a read at offset from may get: to the end of the source, or to the
\* offset source.fault at which the device fails.
ReadableEnd(from) ==
    IF from <= source.fault /\ source.fault < Len(input) THEN source.fault
    ELSE Len(input)

\* The underlying source's Read with a buffer of q >= 1 bytes.  An *os.File: at
\* the end of the file (0, io.EOF), at the offset where the device fails
\* (0, EIO) (internal/poll sets n to 0 with every error), otherwise between 1 and
\* q of the bytes that follow.  The field reader is an io.Reader, which may also
\* hand its last bytes over together with io.EOF (source.dataErr).
FileRead(s, q) ==
    IF s.pos = source.fault
    THEN {[data |-> <<>>, n |-> 0, err |-> "EIO", s |-> s]}
    ELSE IF s.pos >= Len(input)
    THEN {[data |-> <<>>, n |-> 0, err |-> "EOF", s |-> s]}
    ELSE {[data |-> SubSeq(input, s.pos + 1, s.pos + n), n |-> n,
           err |-> IF source.dataErr /\ s.pos + n = Len(input) THEN "EOF"
                   ELSE "nil",
           s |-> [s EXCEPT !.pos = s.pos + n,
                           !.split = s.split \/ InsideChar(s.pos + n)]] :
             n \in 1 .. Min(q, ReadableEnd(s.pos) - s.pos)}

\* (*io.LimitedReader).Read: (0, EOF) once N <= 0; otherwise the request is cut
\* to N bytes and N decreases by what the source returned.  History: the call is
\* counted in reads.
LimitedRead(s, p) ==
    IF s.N <= 0
    THEN {[data |-> <<>>, n |-> 0, err |-> "EOF",
           s |-> [s EXCEPT !.reads = s.reads + 1]]}
    ELSE {[u EXCEPT !.s.N = s.N - u.n, !.s.reads = s.reads + 1] :
            u \in FileRead(s, Min(p, s.N))}

(* The filters' Read calls itself after every chunk that left nothing to       *)
(* deliver.  The operators below follow the call from a set S of reader states *)
(* at once (the states one call can be in after so many reads of the source),  *)
(* so that two ways to the same state are followed once.  The outcomes of the  *)
(* read of the reader below are bound once (below) and handed on.              *)

\* A filter that loses its carry when the reader below it fails.
UpstreamFailed_CarryLost(k, u) ==
    [data |-> <<>>, n |-> u.n, err |-> u.err,
     s |-> [u.s EXCEPT !.chain[k].buffer = <<>>]]

\* Lines 98-100 and 137-139 (344-346 in MapReader): the read u of the reader
\* below chain[k] returned an error; the filter returns u's n and err at once,
\* with nothing written to p and nothing of its own changed.
UpstreamFailed(k, u) == [data |-> <<>>, n |-> u.n, err |-> u.err, s |-> u.s]

RECURSIVE Read(_, _, _)
RECURSIVE CaseReaderRead(_, _, _)
RECURSIVE TrimReaderRead(_, _, _)
RECURSIVE MapReaderRead(_, _, _)

\* CaseReader.Read(p) of the filter chain[k], len(p) = p, from each state of S.
\* Lines 91-94: pending bytes are delivered and the call returns.  Lines 96-100:
\* otherwise one read of the reader below, whose error is returned as it is.
\* Lines 101-119: the chunk is appended and scanned, and Read calls itself.
CaseReaderRead(k, S, p) ==
    IF S = {} THEN {}
    ELSE UNION {
        {LET c == copyFromChecked(p, s.chain[k].mapped)
         IN  [data |-> c.data, n |-> c.length, err |-> "nil",
              s |-> [s EXCEPT !.chain[k].mapped = c.src]] :
           s \in {t \in S : Len(t.chain[k].mapped) # 0}}
        \cup {UpstreamFailed(k, u) : u \in {v \in below : v.err # "nil"}}
        \cup CaseReaderRead(k,
                 {[u.s EXCEPT !.chain[k] = CaseFill(u.s.chain[k], u.data)] :
                    u \in {v \in below : v.err = "nil"}}, p) :
        below \in {Read(k - 1, {t \in S : Len(t.chain[k].mapped) = 0}, p)}}

\* TrimReader.Read(p) of the filter chain[k], from each state of S (lines 130-133,
\* 135-139, 140-164).
TrimReaderRead(k, S, p) ==
    IF S = {} THEN {}
    ELSE UNION {
        {LET c == copyFromChecked(p, s.chain[k].trimmed)
         IN  [data |-> c.data, n |-> c.length, err |-> "nil",
              s |-> [s EXCEPT !.chain[k].trimmed = c.src]] :
           s \in {t \in S : Len(t.chain[k].trimmed) # 0}}
        \cup {UpstreamFailed(k, u) : u \in {v \in below : v.err # "nil"}}
        \cup TrimReaderRead(k,
                 {[u.s EXCEPT !.chain[k] = TrimFill(u.s.chain[k], u.data)] :
                    u \in {v \in below : v.err = "nil"}}, p) :
        below \in {Read(k - 1, {t \in S : Len(t.chain[k].trimmed) = 0}, p)}}

\* MapReader.Read(p) of the filter chain[k], from each state of S (lines 329-340,
\* 342-346, 348-369).
MapReaderRead(k, S, p) ==
    IF S = {} THEN {}
    ELSE UNION {
        {LET c == MapDeliver(p, s.chain[k].safe)
         IN  [data |-> c.data, n |-> c.n, err |-> "nil",
              s |-> [s EXCEPT !.chain[k].safe = c.safe]] :
           s \in {t \in S : Len(t.chain[k].safe) # 0}}
        \cup {UpstreamFailed(k, u) : u \in {v \in below : v.err # "nil"}}
        \cup MapReaderRead(k,
                 {[u.s EXCEPT !.chain[k] = MapFill(u.s.chain[k], u.data)] :
                    u \in {v \in below : v.err = "nil"}}, p) :
        below \in {Read(k - 1, {t \in S : Len(t.chain[k].safe) = 0}, p)}}

\* reader.Read(p) of the k-th reader of the chain, from each state of S; reader 0
\* is the window.
Read(k, S, p) ==
    IF k = 0 THEN UNION {LimitedRead(s, p) : s \in S}
    ELSE CaseReaderRead(k, {s \in S : s.chain[k].type = "CaseReader"}, p)
         \cup TrimReaderRead(k, {s \in S : s.chain[k].type = "TrimReader"}, p)
         \cup MapReaderRead(k, {s \in S : s.chain[k].type = "MapReader"}, p)

-----------------------------------------------------------------------------
(* The inputs of the model. *)

\* Every concatenation of at most n of the byte strings in U.
RECURSIVE Inputs(_, _)
Inputs(U, n) ==
    IF n = 0 THEN {<<>>}
    ELSE LET S == Inputs(U, n - 1) IN S \cup {s \o u : s \in S, u \in U}

\* math.MaxInt, the default of -limit (line 61).  TLC's integers are 32 bits wide:
\* the default stands at the largest of them, above every length of the model.
MaxInt == 2147483647

\* 'B', 'a', U+00E9 (2 bytes), U+FFFD validly encoded (3 bytes), a stray
\* continuation byte, a lead byte with nothing after it.
CaseUnits == {<<66>>, <<97>>, <<195, 169>>, <<239, 191, 189>>, <<169>>, <<195>>}

\* The Options of a run without flags (lines 58-63), the block size apart.
NoOpts ==
    [From |-> "", To |-> "", Offset |-> 0, Limit |-> MaxInt, BlockSize |-> 0,
     Conv |-> <<>>]

\* The reader state the variables hold, as a Read of the caller finds it.
Now == [pos |-> pos, N |-> limitN, chain |-> chain, split |-> split, reads |-> 0]

-----------------------------------------------------------------------------
(* A caller draining a reader with buffers of its choice. *)

\* A chain built over the whole source (offset 0, the default limit), before the
\* first Read.
InitDrainOver(inputs, chains, sources) ==
    /\ input \in inputs
    /\ chain \in chains
    /\ source \in sources
    /\ reads = 0
    /\ pos = 0
    /\ limitN = MaxInt
    /\ out = <<>>
    /\ err = "nil"
    /\ split = FALSE
    /\ pc = "drain"
    /\ convs = <<>>
    /\ opts = NoOpts
    /\ sink = "stdout"
    /\ sinkFile = <<>>
    /\ writer = "stdout"
    /\ opened = TRUE
    /\ exitCode = -1
    /\ stderr = ""

\* The same over an *os.File.
InitDrain(inputs, chains) == InitDrainOver(inputs, chains, {File})

\* One Read of the outermost reader with a buffer of p bytes; the caller keeps what
\* it was given and stops at the first error.
CallerRead(p) ==
    /\ pc = "drain"
    /\ err = "nil"
    /\ \E o \in Read(Len(chain), {Now}, p) :
          /\ out' = out \o o.data
          /\ err' = o.err
          /\ pos' = o.s.pos
          /\ limitN' = o.s.N
          /\ chain' = o.s.chain
          /\ split' = o.s.split
          /\ reads' = o.s.reads
    /\ UNCHANGED <<input, pc, convs, opts, sink, sinkFile, writer, opened,
                   exitCode, stderr, source>>

NextDrain == \E p \in 1 .. MaxBlock : CallerRead(p)

InitCase ==
    InitDrain(Inputs(CaseUnits, MaxUnits),
              {<<NewCaseReader(TRUE)>>, <<NewCaseReader(FALSE)>>})

SpecCase == InitCase /\ [][NextDrain]_vars

\* 'B', U+00E9 (2 bytes), a space, U+3000 (a 3-byte space), a stray continuation
\* byte.
SplitUnits == {<<66>>, <<195, 169>>, <<32>>, <<227, 128, 128>>, <<169>>}

InitSplit ==
    InitDrain(Inputs(SplitUnits, MaxUnits),
              {<<NewCaseReader(TRUE)>>, <<NewCaseReader(FALSE)>>, <<NewTrimReader>>})

SpecSplit == InitSplit /\ [][NextDrain]_vars

\* 'a', a tab, a space, U+00A0 (a 2-byte space), U+FFFD validly encoded.
TrimUnits == {<<97>>, <<9>>, <<32>>, <<194, 160>>, <<239, 191, 189>>}

InitTrim == InitDrain(Inputs(TrimUnits, MaxTrimUnits), {<<NewTrimReader>>})

SpecTrim == InitTrim /\ [][NextDrain]_vars

\* One TrimReader, or a second one reading from the first (-conv
\* trim_spaces,trim_spaces).
InitTrimTwice ==
    InitDrain(Inputs(TrimUnits, MaxTrimUnits),
              {<<NewTrimReader>>, <<NewTrimReader, NewTrimReader>>})

SpecTrimTwice == InitTrimTwice /\ [][NextDrain]_vars

\* The sources of a filter: an *os.File, one that fails with an I/O error at an
\* offset up to n, and the same as readers that hand their last bytes over
\* together with io.EOF.
Sources(n) == {[fault |-> f, dataErr |-> d] : f \in -1 .. n, d \in BOOLEAN}

\* 'B', U+00E9 (2 bytes), a space.
UpstreamUnits == {<<66>>, <<195, 169>>, <<32>>}

\* One filter, or a CaseReader reading from a TrimReader, over each of the
\* sources.
InitUpstream ==
    InitDrainOver(Inputs(UpstreamUnits, MaxUnits),
                  {<<NewCaseReader(TRUE)>>, <<NewTrimReader>>,
                   <<NewTrimReader, NewCaseReader(TRUE)>>},
                  Sources(2 * MaxUnits))

SpecUpstream == InitUpstream /\ [][NextDrain]_vars

\* 'B', a space, U+00E9 (2 bytes), U+FFFD validly encoded.
LiveUnits == {<<66>>, <<32>>, <<195, 169>>, <<239, 191, 189>>}

\* Chains of one and of two filters.
InitLive ==
    InitDrain(Inputs(LiveUnits, MaxLiveUnits),
              {<<NewCaseReader(TRUE)>>, <<NewTrimReader>>,
               <<NewTrimReader, NewCaseReader(TRUE)>>,
               <<NewCaseReader(FALSE), NewTrimReader>>,
               <<NewTrimReader, NewTrimReader>>})

\* io.CopyBuffer calls Read again after every Read that returned a nil error.
SpecLive == InitLive /\ [][NextDrain]_vars /\ WF_vars(NextDrain)

\* 'a', a space, U+FFFD validly encoded, a stray continuation byte, a lead byte
\* with nothing after it (with the continuation byte after it: U+00E9).
StopUnits == {<<97>>, <<32>>, <<239, 191, 189>>, <<169>>, <<195>>}

InitStop ==
    InitDrain(Inputs(StopUnits, MaxUnits),
              {<<NewCaseReader(TRUE)>>, <<NewCaseReader(FALSE)>>, <<NewTrimReader>>})

SpecStop == InitStop /\ [][NextDrain]_vars

\* A zero byte, 'a', U+00E9 (2 bytes), a stray continuation byte.
MapUnits == {<<0>>, <<97>>, <<195, 169>>, <<169>>}

\* One case filter of either program, in either direction, over an *os.File.
InitMap ==
    InitDrain(Inputs(MapUnits, MaxUnits),
              {<<NewCaseReader(TRUE)>>, <<NewCaseReader(FALSE)>>,
               <<NewMapReader(TRUE)>>, <<NewMapReader(FALSE)>>})

SpecMap == InitMap /\ [][NextDrain]_vars

-----------------------------------------------------------------------------
(* The program: main, ParseFlags, CreateReader, createWriter. *)

\* The -conv flag is a string; the model holds it as its tokens: a transformation
\* name, some other text ("x"), or a comma.
ConvTokens == {"lower_case", "upper_case", "trim_spaces", "x", ","}

\* strings.Split(convs, ","): the fields between the commas, each the tokens it is
\* made of (one more field than there are commas).
Split(s) ==
    LET F[i \in 0 .. Len(s)] ==
            IF i = 0 THEN <<<<>>>>
            ELSE IF s[i] = "," THEN Append(F[i - 1], <<>>)
            ELSE [F[i - 1] EXCEPT ![Len(F[i - 1])] = Append(@, s[i])]
    IN  F[Len(s)]

\* convMap (lines 31-35): the fields that name a transformation.
convMap == {<<"lower_case">>, <<"upper_case">>, <<"trim_spaces">>}

\* A validation that does not compare the two case directions.
validatedConvs_NoConflictCheck(s) ==
    IF Len(s) = 0 THEN [convValues |-> <<>>, err |-> "nil"]
    ELSE IF \E i \in DOMAIN Split(s) : Split(s)[i] \notin convMap
         THEN [convValues |-> <<>>, err |-> "ErrInvalidConv: unknown conv"]
    ELSE [convValues |-> Split(s), err |-> "nil"]

\* validatedConvs(convs) (lines 25-52): the fields and a nil error, or
\* ErrInvalidConv for an unknown field or for both case directions.
validatedConvs(s) ==
    IF Len(s) = 0 THEN [convValues |-> <<>>, err |-> "nil"]
    ELSE LET convValues == Split(s)
             hasLower == \E i \in DOMAIN convValues : convValues[i] = <<"lower_case">>
             hasUpper == \E i \in DOMAIN convValues : convValues[i] = <<"upper_case">>
         IN  IF \E i \in DOMAIN convValues : convValues[i] \notin convMap
             THEN [convValues |-> <<>>, err |-> "ErrInvalidConv: unknown conv"]
             ELSE IF hasLower /\ hasUpper
             THEN [convValues |-> <<>>,
                   err |-> "ErrInvalidConv: lower and upper case cannot be used at the same time"]
             ELSE [convValues |-> convValues, err |-> "nil"]

\* main, lines 220-224: ParseFlags; its error ends the run with exit code 1.
ParseFlags ==
    /\ pc = "ParseFlags"
    /\ LET v == validatedConvs(convs)
       IN  IF v.err # "nil"
           THEN /\ pc' = "exit"
                /\ exitCode' = 1
                /\ stderr' = "can not parse flags"
                /\ err' = v.err
                /\ opts' = opts
           ELSE /\ pc' = "CreateReader"
                /\ opts' = [opts EXCEPT !.Conv = v.convValues]
                /\ UNCHANGED <<exitCode, stderr, err>>
    /\ UNCHANGED <<input, pos, limitN, chain, out, split, convs, sink, sinkFile,
                   writer, opened, source, reads>>

\* A CopyN that reports no error when the source ends early.
CopyN_NoShortError(from, n) ==
    [written |-> IF n <= 0 THEN 0 ELSE Min(n, ReadableEnd(from) - from),
     err |-> "nil"]

\* io.CopyN(io.Discard, reader, n) with the source at offset from: copies through
\* io.LimitReader(reader, n), which yields nothing for n <= 0; the error of the
\* read that failed, or EOF when the source ended before n bytes.
CopyN(from, n) ==
    LET written == IF n <= 0 THEN 0 ELSE Min(n, ReadableEnd(from) - from)
    IN  [written |-> written,
         err |-> IF written >= n THEN "nil"
                 ELSE IF from + written = source.fault THEN "EIO"
                 ELSE "EOF"]

\* A chain whose first filter is that of the last field.
BuildChain_Reversed(conv) ==
    LET F[i \in 0 .. Len(conv)] ==
            IF i = 0 THEN <<>>
            ELSE IF conv[i] = <<"lower_case">>
                 THEN <<NewCaseReader(FALSE)>> \o F[i - 1]
            ELSE IF conv[i] = <<"upper_case">>
                 THEN <<NewCaseReader(TRUE)>> \o F[i - 1]
            ELSE <<NewTrimReader>> \o F[i - 1]
    IN  F[Len(conv)]

\* Lines 190-201: one filter for each field of opts.Conv, each reading from the
\* one before it.
BuildChain(conv) ==
    LET F[i \in 0 .. Len(conv)] ==
            IF i = 0 THEN <<>>
            ELSE IF conv[i] = <<"lower_case">>
                 THEN Append(F[i - 1], NewCaseReader(FALSE))
            ELSE IF conv[i] = <<"upper_case">>
                 THEN Append(F[i - 1], NewCaseReader(TRUE))
            ELSE IF conv[i] = <<"trim_spaces">>
                 THEN Append(F[i - 1], NewTrimReader)
            ELSE F[i - 1]
    IN  F[Len(conv)]

\* main's failure of reader construction (lines 227-230).
ReaderFailed(e) ==
    /\ pc' = "exit"
    /\ exitCode' = 1
    /\ stderr' = "can not create reader"
    /\ err' = e

\* main, lines 226-230: CreateReader (lines 167-204).  opts.Offset and opts.Limit
\* are uint64 and are only ever read as int64(...): the model holds each by that
\* int64 value, a flag value of 2^63 or more being negative.
CreateReader ==
    /\ pc = "CreateReader"
    /\ IF opts.From = "missing"
       THEN /\ ReaderFailed("ErrNotExist")
            /\ UNCHANGED <<pos, limitN, chain, opened>>
       ELSE LET c == CopyN(0, opts.Offset)
            IN  /\ opened' = TRUE
                /\ pos' = c.written
                /\ IF c.err # "nil"
                   THEN /\ ReaderFailed(c.err)
                        /\ UNCHANGED <<limitN, chain>>
                   ELSE IF c.written < opts.Offset
                   THEN /\ ReaderFailed("error while skipping bytes")
                        /\ UNCHANGED <<limitN, chain>>
                   ELSE /\ limitN' = opts.Limit
                        /\ chain' = BuildChain(opts.Conv)
                        /\ pc' = "createWriter"
                        /\ UNCHANGED <<exitCode, stderr, err>>
    /\ UNCHANGED <<input, out, split, convs, opts, sink, sinkFile, writer,
                   source, reads>>

\* os.Stat(to): nil for a file that exists, an error os.IsNotExist accepts when
\* the path or its directory does not, another error otherwise.
Stat(state) ==
    IF state = "exists" THEN "nil"
    ELSE IF state \in {"absent", "nodir"} THEN "ErrNotExist"
    ELSE "ErrPermission"

\* createWriter(to) (lines 206-217) with the path in the given state: the writer
\* and the error it returns, and whether it created the file.
createWriter(to, state) ==
    IF to = "" THEN [writer |-> "stdout", err |-> "nil", created |-> FALSE]
    ELSE LET e == Stat(state)
         IN  IF e # "ErrNotExist"
             THEN [writer |-> "nil", err |-> e, created |-> FALSE]
             ELSE IF state = "nodir"
             THEN [writer |-> "nil", err |-> "ErrNotExist", created |-> FALSE]
             ELSE [writer |-> "file", err |-> "nil", created |-> TRUE]

\* main, lines 232-236.
CreateWriter ==
    /\ pc = "createWriter"
    /\ LET w == createWriter(opts.To, sink)
       IN  /\ writer' = w.writer
           /\ sink' = IF w.created THEN "created" ELSE sink
           /\ sinkFile' = IF w.created THEN <<>> ELSE sinkFile
           /\ IF w.err # "nil"
              THEN /\ pc' = "exit"
                   /\ exitCode' = 1
                   /\ stderr' = "can not create writer"
                   /\ err' = w.err
              ELSE /\ pc' = "copy"
                   /\ UNCHANGED <<exitCode, stderr, err>>
    /\ UNCHANGED <<input, pos, limitN, chain, out, split, convs, opts, opened,
                   source, reads>>

\* main, lines 238-243: one round of the loop of io.CopyBuffer with a buffer of
\* opts.BlockSize bytes: a Read; the bytes read are written; EOF ends the copy
\* and the run with exit code 0, another error with "error while copping" and 1.
\* Writing through a nil writer is a nil dereference: the run panics (exit 2).
Copy ==
    /\ pc = "copy"
    /\ \E o \in Read(Len(chain), {Now}, opts.BlockSize) :
          /\ pos' = o.s.pos
          /\ limitN' = o.s.N
          /\ chain' = o.s.chain
          /\ split' = o.s.split
          /\ reads' = o.s.reads
          /\ IF o.n > 0 /\ writer = "nil"
             THEN /\ pc' = "exit"
                  /\ exitCode' = 2
                  /\ stderr' = "panic: nil pointer dereference"
                  /\ UNCHANGED <<out, sinkFile, err>>
             ELSE /\ out' = out \o o.data
                  /\ sinkFile' = IF writer = "file" THEN sinkFile \o o.data
                                 ELSE sinkFile
                  /\ err' = o.err
                  /\ IF o.err = "nil"
                     THEN UNCHANGED <<pc, exitCode, stderr>>
                     ELSE /\ pc' = "exit"
                          /\ exitCode' = IF o.err = "EOF" THEN 0 ELSE 1
                          /\ stderr' = IF o.err = "EOF" THEN stderr
                                       ELSE "error while copping"
    /\ UNCHANGED <<input, convs, opts, sink, writer, opened, source>>

NextMain == ParseFlags \/ CreateReader \/ CreateWriter \/ Copy

\* The process as main starts: a command line and a file system.
InitMain(inputs, froms, offsets, limits, blocks, flags, sinks) ==
    /\ input \in inputs
    /\ convs \in flags
    /\ sink \in sinks
    /\ \E f \in froms, o \in offsets, l \in limits, b \in blocks :
          opts = [NoOpts EXCEPT !.From = f, !.Offset = o, !.Limit = l,
                                !.BlockSize = b,
                                !.To = IF sink = "stdout" THEN "" ELSE "to"]
    /\ sinkFile = IF sink = "exists" THEN <<111, 108, 100>> ELSE <<>>
    /\ writer = "nil"
    /\ pos = 0
    /\ limitN = 0
    /\ chain = <<>>
    /\ out = <<>>
    /\ err = "nil"
    /\ split = FALSE
    /\ pc = "ParseFlags"
    /\ opened = FALSE
    /\ exitCode = -1
    /\ stderr = ""
    /\ source = File
    /\ reads = 0

\* The file handles the process holds: os.Open (line 174) and os.Create (line
\* 216) each return one, and the program has no call of Close.
OpenHandles ==
    (IF opened /\ opts.From # "" THEN {"source"} ELSE {})
        \cup (IF sink = "created" THEN {"sink"} ELSE {})

\* The first n bytes of "abcdefgh...": no two bytes alike.
Sample(n) == [i \in 1 .. n |-> 96 + i]

\* Every sequence of at most n elements of S.
RECURSIVE SeqsUpTo(_, _)
SeqsUpTo(S, n) ==
    IF n = 0 THEN {<<>>}
    ELSE LET T == SeqsUpTo(S, n - 1) IN T \cup {Append(s, x) : s \in T, x \in S}

\* The state of the path opts.To: none is given, no such file, a file, no such
\* directory, a directory that may not be searched.
SinkStates == {"stdout", "absent", "exists", "nodir", "denied"}

\* Runs over every -conv flag of at most MaxConv tokens; the source is empty or
\* " \u00e9B ".
Init ==
    InitMain({<<>>, <<32, 195, 169, 66, 32>>}, {"in"}, {0}, {MaxInt}, {2},
             SeqsUpTo(ConvTokens, MaxConv), {"stdout"})

Spec == Init /\ [][NextMain]_vars

\* Runs over every state of the sink.
InitSink ==
    InitMain({<<>>, <<97>>, <<32, 195, 169, 66, 32>>}, {"", "in", "missing"},
             {0, 1}, {MaxInt, 0}, 1 .. MaxBlock,
             {<<>>, <<"trim_spaces">>, <<"upper_case", ",", "trim_spaces">>, <<"x">>},
             SinkStates)

SpecSink == InitSink /\ [][NextMain]_vars

\* The -conv flags of at most MaxConv tokens that validatedConvs accepts.
ValidFlags == {s \in SeqsUpTo(ConvTokens, MaxConv) : validatedConvs(s).err = "nil"}

\* Runs over every accepted -conv flag, with and without a window that cuts a
\* character; the source is " \u00e9B ", "a\u3000\u3000b" or
\* "\u00ff\tB\ufffdz".
InitChain ==
    InitMain({<<32, 195, 169, 66, 32>>,
              <<97, 227, 128, 128, 227, 128, 128, 98>>,
              <<195, 191, 9, 66, 239, 191, 189, 122>>},
             {"in"}, {0, 1}, {MaxInt, 4}, 1 .. MaxBlock, ValidFlags, {"stdout"})

SpecChain == InitChain /\ [][NextMain]_vars

\* Runs that window a source of at most MaxSrc bytes: every offset and limit up
\* to one more than that, the default limit, and 2^64-1 for either (which
\* int64(...) makes -1).
InitWindow ==
    InitMain({Sample(n) : n \in 0 .. MaxSrc}, {"in", "missing"},
             (0 .. MaxSrc + 1) \cup {-1}, (0 .. MaxSrc + 1) \cup {MaxInt, -1},
             1 .. MaxBlock, {<<>>, <<"upper_case">>}, {"stdout", "absent"})

SpecWindow == InitWindow /\ [][NextMain]_vars

-----------------------------------------------------------------------------
(* What the claims speak of, stated without the readers. *)

\* The successive characters of b, each as its bytes, decoded from the first byte
\* on; a validly encoded U+FFFD is a character as any other, a byte that decodes
\* to nothing a unit of one byte.
RECURSIVE Chars(_)
Chars(b) ==
    IF Len(b) = 0 THEN <<>>
    ELSE LET w == DecodeRune(b).size
         IN  <<SliceTo(b, w)>> \o Chars(SliceFrom(b, w))

\* c, the bytes of one unit, is a well-formed character.
IsChar(c) == ~(Len(c) = 1 /\ c[1] >= 128)

\* b is well-formed UTF-8.
WellFormed(b) == \A i \in DOMAIN Chars(b) : IsChar(Chars(b)[i])

\* The rune of a well-formed character.
RuneOf(c) == DecodeRune(c).r

\* The concatenation of a sequence of byte strings.
RECURSIVE Flatten(_)
Flatten(cs) == IF Len(cs) = 0 THEN <<>> ELSE Head(cs) \o Flatten(Tail(cs))

\* The case transform of the whole of a well-formed b.
CaseTransform(b, toUpper) ==
    LET cs == Chars(b)
    IN  Flatten([i \in DOMAIN cs |->
                   EncodeRune(IF toUpper THEN ToUpper(RuneOf(cs[i]))
                              ELSE ToLower(RuneOf(cs[i])))])

\* The fresh filter of the configuration of f.
Fresh(f) == IF f.type = "CaseReader" THEN NewCaseReader(f.toUpper) ELSE NewTrimReader

\* What a fresh filter of the configuration of f has to deliver after one read that
\* handed it the whole of b.
OneRead(f, b) ==
    IF f.type = "CaseReader" THEN CaseFill(Fresh(f), b).mapped
    ELSE TrimFill(Fresh(f), b).trimmed

\* The runes of Unicode's White_Space property.
WhiteSpace ==
    {9, 10, 11, 12, 13, 32, 133, 160, 5760, 8232, 8233, 8239, 8287, 12288}
        \cup (8192 .. 8202)

\* c is a white space character.
IsSpaceChar(c) == IsChar(c) /\ RuneOf(c) \in WhiteSpace

\* The units of cs before the first one a scan stops at: a byte that decodes to
\* nothing, or U+FFFD itself.
RECURSIVE Readable(_)
Readable(cs) ==
    IF Len(cs) = 0 \/ RuneOf(Head(cs)) = RuneError THEN <<>>
    ELSE <<Head(cs)>> \o Readable(Tail(cs))

\* cs without the white space at its head.
RECURSIVE StripLeft(_)
StripLeft(cs) ==
    IF Len(cs) # 0 /\ IsSpaceChar(Head(cs)) THEN StripLeft(Tail(cs)) ELSE cs

\* cs without the white space at its end.
RECURSIVE StripRight(_)
StripRight(cs) ==
    IF Len(cs) # 0 /\ IsSpaceChar(cs[Len(cs)])
    THEN StripRight(SubSeq(cs, 1, Len(cs) - 1)) ELSE cs

Strip(cs) == StripRight(StripLeft(cs))

\* cs with every run of white space cut to the first character of the run.
Collapse(cs) ==
    LET keep == {i \in DOMAIN cs :
                    ~(i > 1 /\ IsSpaceChar(cs[i]) /\ IsSpaceChar(cs[i - 1]))}
        F[i \in 0 .. Len(cs)] ==
            IF i = 0 THEN <<>>
            ELSE IF i \in keep THEN Append(F[i - 1], cs[i]) ELSE F[i - 1]
    IN  F[Len(cs)]

\* The characters of cs that are not white space, in order.
NonSpace(cs) ==
    LET F[i \in 0 .. Len(cs)] ==
            IF i = 0 THEN <<>>
            ELSE IF IsSpaceChar(cs[i]) THEN F[i - 1] ELSE Append(F[i - 1], cs[i])
    IN  F[Len(cs)]

\* b is white space and nothing else.
OnlySpaces(b) == \A i \in DOMAIN Chars(b) : IsSpaceChar(Chars(b)[i])

\* b has no white space at either end and no two white space characters in a row.
Trimmed(b) ==
    LET cs == Chars(b)
    IN  /\ Strip(cs) = cs
        /\ Collapse(cs) = cs

-----------------------------------------------------------------------------
(* The claims. *)

\* C1 (as claimed): once the CaseReader has been drained to end-of-stream, what it
\* delivered is the case transform of the whole input, whatever buffers the
\* caller chose.  Stated for the well-formed inputs, where the transform of the
\* whole input is beyond dispute.
C1_WholeInputTransformed ==
    (err = "EOF" /\ WellFormed(input))
        => out = CaseTransform(input, chain[1].toUpper)

\* C2: when a source read ended strictly inside a multi-byte character, the drained
\* output of the filter (CaseReader or TrimReader) is what the filter delivers
\* when the whole input, that character included, reaches it in a single read.
C2_SplitSameAsSingleRead ==
    (err = "EOF" /\ split) => out = OneRead(chain[1], input)

\* C2 witness: a drained CaseReader that got a two-byte letter in two reads and
\* delivered its upper case.
C2_Witness ==
    /\ err = "EOF"
    /\ split
    /\ chain[1].type = "CaseReader"
    /\ input = <<66, 195, 169>>
    /\ out = <<66, 195, 137>>

\* C3 (as claimed): drained, the TrimReader has delivered its input with every run
\* of white space between two other characters cut to the first character of the
\* run ("a\t\tb" gives "a\tb").
C3_RunsCollapsed ==
    err = "EOF" => out = Flatten(Collapse(Strip(Readable(Chars(input)))))

\* C3 (amended): drained, the TrimReader has delivered every run of white space
\* that lies between two other characters unchanged, in full: the output is the
\* input it could read without the white space at its two ends ("a\t\ta" gives
\* "a\t\ta").
C3_RunsKept ==
    err = "EOF" => out = Flatten(Strip(Readable(Chars(input))))

\* C3 witness: "a\t\ta" drained through one TrimReader came out whole.
C3_Witness ==
    /\ err = "EOF"
    /\ input = <<97, 9, 9, 97>>
    /\ out = <<97, 9, 9, 97>>

\* C4 (as claimed): drained, the output of the TrimReader neither starts nor ends
\* with white space, and its characters other than white space are those of the
\* input, in the same order.
C4_EdgesCleanAndAllKept ==
    (err = "EOF" /\ WellFormed(input)) =>
        LET co == Chars(out)
        IN  /\ Strip(co) = co
            /\ NonSpace(co) = NonSpace(Chars(input))

\* C5: of an input that is white space and nothing else the TrimReader delivers no
\* byte, at any point of any drain.
C5_OnlySpacesGiveNothing ==
    OnlySpaces(input) => out = <<>>

\* C5 witness: a space, U+00A0 cut in two by a source read, and a tab: drained to
\* end-of-stream with nothing delivered.
C5_Witness ==
    /\ err = "EOF"
    /\ split
    /\ input = <<32, 194, 160, 9>>
    /\ out = <<>>

\* C6 (as claimed): an input with no white space at either end and no two white
\* space characters in a row comes out of the TrimReader, and of two TrimReaders
\* in a row, as it went in.
C6_TrimmedUnchanged ==
    (err = "EOF" /\ WellFormed(input) /\ Trimmed(input)) => out = input

\* The bytes of the window of skip S and limit L over the input, S and L as the
\* flags give them (a negative L is a limit of 2^63 or more).
Window(S, L) ==
    LET N == Len(input)
    IN  SubSeq(input, S + 1, IF L < 0 \/ L >= N - S THEN N ELSE S + L)

\* C7 (as claimed): with no transformation and a skip S within the source, the run
\* ends with exactly the bytes source[S .. min(S+L, N)) delivered, whatever the
\* limit L; the source is read no further than the window.
C7_WindowDelivered ==
    (pc = "exit" /\ convs = <<>> /\ opts.From = "in"
        /\ 0 <= opts.Offset /\ opts.Offset <= Len(input))
        => /\ exitCode = 0
           /\ out = Window(opts.Offset, opts.Limit)
           /\ pos = opts.Offset + Len(out)

\* C7, for the limits below 2^63 alone.
C7_WindowDeliveredBelowInt64 ==
    opts.Limit >= 0 => C7_WindowDelivered

\* The run is past CreateReader.
PastCreateReader == pc \notin {"ParseFlags", "CreateReader"}

\* C8 (as claimed): with a skip count greater than or equal to the length of the
\* source (a negative Offset is a count of 2^63 or more), reader construction
\* fails and returns no reader.
C8_SkipAtLeastSourceFails ==
    (PastCreateReader /\ (opts.Offset < 0 \/ opts.Offset >= Len(input)))
        => /\ pc = "exit"
           /\ stderr = "can not create reader"
           /\ chain = <<>>

\* C8 (amended): with a skip count greater than the length of the source, and
\* below 2^63, CreateReader fails with the io.EOF of CopyN and returns no
\* reader: the run ends with exit code 1 and "can not create reader", nothing
\* delivered.  With a skip count equal to the length of the source construction
\* succeeds, and the window is empty.
C8_SkipBeyondSourceFails ==
    (PastCreateReader /\ opts.From = "in")
        => /\ opts.Offset > Len(input)
               => /\ pc = "exit"
                  /\ exitCode = 1
                  /\ stderr = "can not create reader"
                  /\ err = "EOF"
                  /\ chain = <<>>
                  /\ out = <<>>
           /\ opts.Offset = Len(input)
               => /\ stderr # "can not create reader"
                  /\ out = <<>>
                  /\ pc = "exit" => exitCode = 0

\* C8 witness: a run that was to skip 3 bytes of a source of 2 ended at reader
\* construction.
C8_Witness ==
    /\ pc = "exit"
    /\ opts.From = "in"
    /\ Len(input) = 2
    /\ opts.Offset = 3
    /\ stderr = "can not create reader"

\* The -conv flag s names something that is no transformation, or both case
\* directions.
BadConv(s) ==
    /\ Len(s) # 0
    /\ LET f == Split(s)
       IN  \/ \E i \in DOMAIN f :
                f[i] \notin {<<"lower_case">>, <<"upper_case">>, <<"trim_spaces">>}
           \/ \E i, j \in DOMAIN f :
                f[i] = <<"lower_case">> /\ f[j] = <<"upper_case">>

\* C9: a run whose -conv flag is bad never gets to reader construction: the
\* source is not opened, no byte of it is read or skipped, no filter is built,
\* and the run ends with exit code 1 and "can not parse flags".
C9_BadConvRejectedFirst ==
    BadConv(convs)
        => /\ pc \in {"ParseFlags", "exit"}
           /\ ~opened
           /\ pos = 0
           /\ chain = <<>>
           /\ out = <<>>
           /\ pc = "exit" => (exitCode = 1 /\ stderr = "can not parse flags")

\* C9 witness: -conv upper_case,trim_spaces,lower_case was rejected.
C9_Witness ==
    /\ pc = "exit"
    /\ convs = <<"upper_case", ",", "trim_spaces", ",", "lower_case">>
    /\ stderr = "can not parse flags"
    /\ ~opened

\* C10 (as claimed): when the file at opts.To exists as the run starts, the copy
\* phase is never entered, the file keeps its content, and a run that got as far
\* as writer construction ends with a non-zero exit code and "can not create
\* writer".
C10_ExistingSinkRefused ==
    sink = "exists"
        => /\ pc # "copy"
           /\ sinkFile = <<111, 108, 100>>
           /\ (pc = "exit" /\ stderr \notin {"can not parse flags",
                                              "can not create reader"})
                 => (exitCode # 0 /\ stderr = "can not create writer")

\* Every outcome the caller's next Read can have, for every buffer it may bring.
NextReads ==
    IF pc = "drain" /\ err = "nil"
    THEN UNION {Read(Len(chain), {Now}, p) : p \in 1 .. MaxBlock}
    ELSE {}

\* C11 (as claimed): whatever a Read of the outermost filter returns, a nil
\* error, end-of-stream or another error, the count n it reports is no greater
\* than the number of bytes it wrote into the caller's buffer.
C11_CountWithinWritten ==
    \A o \in NextReads : o.n <= Len(o.data)

\* C11, over an *os.File alone, whose reads return no byte with an error.
C11_CountWithinWrittenFromFile ==
    ~source.dataErr => C11_CountWithinWritten

\* The bytes the source has handed over so far.
Handed == SliceTo(input, pos)

\* C12 (as claimed): at every point of a drain of one case filter, the bytes the
\* source has handed over are the bytes the filter has scanned followed by its
\* carry, and the transform of the scanned bytes is what was delivered followed
\* by what is pending: no byte has gone missing.
C12_EveryByteAccounted ==
    LET f == chain[1]
        scanned == Len(Handed) - Len(f.buffer)
    IN  /\ scanned >= 0
        /\ SliceFrom(Handed, scanned) = f.buffer
        /\ CaseTransform(SliceTo(Handed, scanned), f.toUpper)
              = out \o (IF f.type = "MapReader" THEN f.safe ELSE f.mapped)

\* C12, for the CaseReader alone.
C12_EveryByteAccountedByCaseReader ==
    chain[1].type = "CaseReader" => C12_EveryByteAccounted

\* The pending-output buffer of a filter.
Pending(f) ==
    IF f.type = "CaseReader" THEN f.mapped
    ELSE IF f.type = "TrimReader" THEN f.trimmed
    ELSE f.safe

\* No filter of the chain c has bytes pending.
NonePending(c) == \A k \in DOMAIN c : Pending(c[k]) = <<>>

\* C13: a Read that returns an error other than end-of-stream returns the very
\* error of the source (EIO), with a count of 0 and nothing written, the source
\* no further than the offset that failed and no filter with bytes pending; and
\* when the first read of the source fails, that is the only read (no retry) and
\* every filter is left as it was: carry, pending-output and flag.
C13_ErrorReturnedUnchanged ==
    /\ \A o \in NextReads :
          o.err \notin {"nil", "EOF"}
              => /\ o.err = "EIO"
                 /\ o.n = 0
                 /\ o.data = <<>>
                 /\ o.s.pos = source.fault
                 /\ NonePending(o.s.chain)
    /\ (pc = "drain" /\ err = "nil" /\ pos = source.fault /\ NonePending(chain))
          => \A p \in 1 .. MaxBlock :
                Read(Len(chain), {Now}, p)
                    = {[data |-> <<>>, n |-> 0, err |-> "EIO",
                        s |-> [Now EXCEPT !.reads = 1]]}

\* C13 witness: a CaseReader reading from a TrimReader returned the I/O error of
\* the source after it had delivered bytes, the TrimReader with a carry it keeps.
C13_Witness ==
    /\ err = "EIO"
    /\ Len(chain) = 2
    /\ out # <<>>
    /\ chain[1].buffer # <<>>
    /\ chain[1].skippedSpaces

\* C14 (as claimed): when the run ends, on whichever path, no file handle it
\* opened for the source or the sink is still open.
C14_HandlesReleased ==
    pc = "exit" => OpenHandles = {}

\* C15 (as claimed): between two Reads of the caller, the carry buffer of every
\* filter is empty or starts with bytes that decode to no character: an invalid
\* byte or the start of a character whose end has not come.
C15_CarryUndecodable ==
    \A k \in DOMAIN chain :
        chain[k].buffer # <<>> => ~IsChar(Head(Chars(chain[k].buffer)))

\* C18 (as claimed): one Read of the caller makes a bounded number of reads of
\* the window, whatever the length of the input.  A character has at most 4
\* bytes (utf8.UTFMax), so 4 reads of a byte or more always bring something to
\* decode: a filter that checks its progress needs no more than these and the
\* read that reports end-of-stream.
C18_ReadsBounded ==
    reads <= 4 + 1

\* C16: a Read of main's copy loop that finds bytes pending in the outermost
\* filter delivers the first min(len(p), len(pending)) of them and nothing else,
\* keeps the rest pending, reads nothing from the window or from the filters
\* below, leaves the carry as it is and returns a nil error.
C16_PendingDeliveredFirst ==
    [][(pc = "copy" /\ chain # <<>> /\ Pending(chain[Len(chain)]) # <<>>)
        => LET k == Len(chain)
               pending == Pending(chain[k])
               c == Min(opts.BlockSize, Len(pending))
           IN  /\ out' = out \o SliceTo(pending, c)
               /\ Pending(chain'[k]) = SliceFrom(pending, c)
               /\ chain'[k].buffer = chain[k].buffer
               /\ \A j \in 1 .. k - 1 : chain'[j] = chain[j]
               /\ pos' = pos
               /\ limitN' = limitN
               /\ reads' = 0
               /\ err' = "nil"
               /\ pc' = "copy"]_vars

\* C16 witness: with a block of one byte, a Read served from the pending bytes
\* alone (it read nothing from the window) has left two or more of them pending.
C16_Witness ==
    /\ pc = "copy"
    /\ opts.BlockSize = 1
    /\ chain # <<>>
    /\ out # <<>>
    /\ reads = 0
    /\ Len(Pending(chain[Len(chain)])) >= 2

\* The transformation named t applied to the whole of b: what a filter can read
\* of b (up to the first position its scan stops at), case-mapped or without the
\* white space at its ends.
Transform(t, b) ==
    LET cs == Readable(Chars(b))
    IN  IF t = <<"trim_spaces">> THEN Flatten(Strip(cs))
        ELSE CaseTransform(Flatten(cs), t = <<"upper_case">>)

\* tk(...t2(t1(b))...) for the list conv = [t1, ..., tk].
Compose(conv, b) ==
    LET F[i \in 0 .. Len(conv)] ==
            IF i = 0 THEN b ELSE Transform(conv[i], F[i - 1])
    IN  F[Len(conv)]

\* The transformation a filter performs.
KindOf(f) ==
    IF f.type = "TrimReader" THEN <<"trim_spaces">>
    ELSE IF f.toUpper THEN <<"upper_case">> ELSE <<"lower_case">>

\* C19: the reader CreateReader returns has one filter for each entry of the
\* validated list, the filter of entry i reading from that of entry i - 1 and the
\* first from the window; a run that ends well has delivered
\* tk(...t2(t1(window))...).
C19_ChainInListedOrder ==
    /\ (PastCreateReader /\ stderr # "can not create reader")
          => /\ Len(chain) = Len(opts.Conv)
             /\ \A i \in DOMAIN chain : KindOf(chain[i]) = opts.Conv[i]
    /\ (pc = "exit" /\ exitCode = 0)
          => out = Compose(opts.Conv, Window(opts.Offset, opts.Limit))

\* C19 witness: a run with -conv trim_spaces,upper_case,trim_spaces ended well
\* with bytes delivered that are not those of the window.
C19_Witness ==
    /\ pc = "exit"
    /\ exitCode = 0
    /\ opts.Conv = <<<<"trim_spaces">>, <<"upper_case">>, <<"trim_spaces">>>>
    /\ out # <<>>
    /\ out # Window(opts.Offset, opts.Limit)

\* C17: with a buffer of one byte or more, no Read of a filter returns 0 bytes
\* and a nil error; and a caller that reads on after every nil error comes to
\* end-of-stream, whatever the chain and whatever buffers it brings.
C17_ProgressAndEnd ==
    /\ [](\A o \in NextReads : o.err = "nil" => (o.n >= 1 /\ Len(o.data) = o.n))
    /\ <>(err = "EOF")

\* C17 witness: a chain of two filters, one of its source reads cut inside a
\* character, drained to end-of-stream with bytes delivered.
C17_Witness ==
    /\ err = "EOF"
    /\ Len(chain) = 2
    /\ split
    /\ out # <<>>

\* The offset of the first position of the input a scan stops at for good: the
\* length of the input when there is none.
FirstStop == Len(Flatten(Readable(Chars(input))))

\* C20: in a drain of one filter, what has been delivered is at every point a
\* prefix of the transformation of the input before the first stop position;
\* all that the source has handed over from that position on lies at the end of
\* the carry; the drain ends with end-of-stream and no other error, with exactly
\* that transformation delivered and the rest of the input still in the carry.
C20_NothingPastFirstStop ==
    LET f == chain[1]
        whole == Transform(KindOf(f), input)
        held == Len(f.buffer) - (pos - FirstStop)
    IN  /\ Len(out) <= Len(whole)
        /\ out = SliceTo(whole, Len(out))
        /\ pos >= FirstStop
              => /\ held >= 0
                 /\ SliceFrom(f.buffer, held) = Slice(input, FirstStop, pos)
        /\ err # "nil"
              => /\ err = "EOF"
                 /\ pos = Len(input)
                 /\ out = whole

\* C20 witness: a CaseReader drained over "a\ufffda": it delivered "A" and still
\* holds the four bytes that follow.
C20_Witness ==
    /\ err = "EOF"
    /\ input = <<97, 239, 191, 189, 97>>
    /\ out = <<65>>
    /\ chain[1].buffer = <<239, 191, 189, 97>>

=============================================================================
